---------------------------- MODULE Spec2Model ----------------------------
(***************************************************************************)
(* Document ingestion and hybrid retrieval of chatbot-jichikai:            *)
(*   - the boundary chunker of src/lib/utils/chunking.ts,                  *)
(*   - the embedding batch processor (process-embeddings route) together   *)
(*     with the upload route that creates the files it works on,           *)
(*   - the stored function hybrid_search_documents.                        *)
(* Each component has its own specification (SpecChunk, Spec, SpecSearch)  *)
(* over its own variables; the variables of the other components stay at   *)
(* their idle value.                                                       *)
(***************************************************************************)
EXTENDS Integers, Sequences, FiniteSets, Bags, TLC

VARIABLES
  \* ---- chunker (splitIntoChunks) ----
  text,            \* the argument `text`, a sequence of characters
  chunkSize,       \* the argument `chunkSize`
  overlap,         \* the argument `overlap`
  normalizedText,  \* const normalizedText
  startIndex,      \* let startIndex
  chunks,          \* const chunks: string[]  (the value returned once pc = "done")
  passes,          \* the number of passes of the while loop so far, modulo 2
  covered,         \* the positions of normalizedText inside a slice that was pushed
  lastWindow,      \* <<startIndex, endIndex>> of the last pass, <<>> before the first
  offsets,         \* for each chunk pushed, the position of normalizedText it starts at
  pc,              \* position in splitIntoChunks: "idle", "start", "loop", "done"
  \* ---- contextual headers (addContextualHeaders) ----
  hd,              \* the arguments, locals and result of addContextualHeaders
  \* ---- file store, chunk store, processor ----
  files,           \* table files: file id -> row, NoFile where there is none
  documents,       \* table documents: the bag of its rows (rows differ by id only)
  last,            \* the last request served and what happened in it
  hist,            \* per file: whether a call has failed, and the provider calls before
  inv,             \* per concurrent invocation of the processor: its position and locals
  \* ---- hybrid search ----
  sdocs,           \* the documents table a query runs against
  query,           \* the arguments of hybrid_search_documents
  result           \* the rows it returned

splitVars == <<text, chunkSize, overlap, normalizedText, startIndex, chunks, passes,
               covered, lastWindow, offsets, pc>>
chunkVars == <<splitVars, hd>>
procVars == <<files, documents, last, hist, inv>>
searchVars == <<sdocs, query, result>>
vars == <<text, chunkSize, overlap, normalizedText, startIndex, chunks, passes,
          covered, lastWindow, offsets, pc, hd,
          files, documents, last, hist, inv, sdocs, query, result>>

Max(a, b) == IF a >= b THEN a ELSE b
Min(a, b) == IF a <= b THEN a ELSE b

(***************************************************************************)
(*                       Strings, as JavaScript has them                   *)
(***************************************************************************)
\* The characters texts are drawn from: a letter, a space (for /[ \t]/), a
\* sentence terminator (for /[.!?]/), a line break and the heading marker.
Alphabet == {"a", " ", ".", "\n", "#"}

\* Longest raw text, largest chunkSize and largest overlap tried.
MaxLen == 5
MaxChunkSize == 4
MaxOverlap == 2
\* chunks.push beyond this many entries is not recorded (a run that never
\* leaves the loop pushes for ever).
MaxChunks == 8

RECURSIVE SeqsUpTo(_)
SeqsUpTo(n) ==
  IF n = 0 THEN {<<>>}
  ELSE LET shorter == SeqsUpTo(n - 1)
       IN  shorter \cup {Append(s, c) : s \in {t \in shorter : Len(t) = n - 1}, c \in Alphabet}

Texts == SeqsUpTo(MaxLen)

\* /\s/ on the characters of the alphabet
IsSpace(c) == c \in {" ", "\n"}

\* s[i] for a 0-based index; "undefined" outside the string
CharAt(s, i) == IF i >= 0 /\ i < Len(s) THEN s[i + 1] ELSE "undefined"

\* String.prototype.trim
RECURSIVE TrimLeft(_)
TrimLeft(s) == IF s # <<>> /\ IsSpace(Head(s)) THEN TrimLeft(Tail(s)) ELSE s

RECURSIVE TrimRight(_)
TrimRight(s) ==
  IF s # <<>> /\ IsSpace(s[Len(s)]) THEN TrimRight(SubSeq(s, 1, Len(s) - 1)) ELSE s

Trim(s) == TrimRight(TrimLeft(s))

\* String.prototype.slice(from, to): a negative index counts from the end
SliceIndex(s, i) == IF i < 0 THEN Max(Len(s) + i, 0) ELSE Min(i, Len(s))

Slice(s, from, to) ==
  LET a == SliceIndex(s, from)
      b == SliceIndex(s, to)
  IN  IF a < b THEN SubSeq(s, a + 1, b) ELSE <<>>

\* the 0-based positions of s that s.slice(from, to) holds
SlicePositions(s, from, to) == SliceIndex(s, from)..(SliceIndex(s, to) - 1)

\* the position of s at which s.slice(from, to).trim() starts
TrimmedStart(s, from, to) ==
  SliceIndex(s, from) + (Len(Slice(s, from, to)) - Len(TrimLeft(Slice(s, from, to))))

\* String.prototype.substring(0, to): a negative index is 0
Substring0(s, to) == SubSeq(s, 1, Min(Max(to, 0), Len(s)))

\* String.prototype.split('\n')
RECURSIVE SplitLines(_)
SplitLines(s) ==
  IF \A i \in 1..Len(s) : s[i] # "\n" THEN <<s>>
  ELSE LET k == CHOOSE i \in 1..Len(s) : s[i] = "\n" /\ \A j \in 1..(i - 1) : s[j] # "\n"
       IN  <<SubSeq(s, 1, k - 1)>> \o SplitLines(SubSeq(s, k + 1, Len(s)))

\* Array.prototype.join('\n')
RECURSIVE JoinLines(_)
JoinLines(ls) ==
  IF ls = <<>> THEN <<>>
  ELSE IF Len(ls) = 1 THEN ls[1]
  ELSE ls[1] \o <<"\n">> \o JoinLines(Tail(ls))

\* line.replace(/  /g, ' '): every two spaces become one
RECURSIVE CollapsePairs(_)
CollapsePairs(s) ==
  IF Len(s) < 2 THEN s
  ELSE IF s[1] = " " /\ s[2] = " " THEN <<" ">> \o CollapsePairs(SubSeq(s, 3, Len(s)))
  ELSE <<s[1]>> \o CollapsePairs(Tail(s))

\* line.replace(/[ \t]+/g, ' ')
\* (a space goes when a space follows it: the last of a run stays)
CollapseSpaces(s) ==
  LET Keep(i) == ~(s[i] = " " /\ i < Len(s) /\ s[i + 1] = " ")
      kept == SelectSeq([i \in 1..Len(s) |-> i], Keep)
  IN  [k \in 1..Len(kept) |-> s[kept[k]]]

\* .replace(/\n{3,}/g, '\n\n')
\* (a line break goes when two follow it: the last two of a run stay)
CollapseNewlines(s) ==
  LET Keep(i) == ~(s[i] = "\n" /\ i + 2 <= Len(s) /\ s[i + 1] = "\n" /\ s[i + 2] = "\n")
      kept == SelectSeq([i \in 1..Len(s) |-> i], Keep)
  IN  [k \in 1..Len(kept) |-> s[kept[k]]]

\* the normalisation of splitIntoChunks, chunking.ts 32-37
Normalize(s) ==
  LET ls == SplitLines(s)
      mapped == [i \in 1..Len(ls) |-> Trim(CollapseSpaces(ls[i]))]
  IN  Trim(CollapseNewlines(JoinLines(mapped)))

(***************************************************************************)
(*                              The chunker                                *)
(***************************************************************************)
\* line.match(/^#{1,3}\s+/) on a trimmed line
IsHeadingLine(l) ==
  \E k \in 1..3 : /\ Len(l) > k
                  /\ \A j \in 1..k : l[j] = "#"
                  /\ IsSpace(l[k + 1])

\* lines.slice(0, i).join('\n').length + (i > 0 ? 1 : 0), i 0-based
LineStart(ls, i) == Len(JoinLines(SubSeq(ls, 1, i))) + (IF i > 0 THEN 1 ELSE 0)

\* the loop of findMarkdownHeading from line i (0-based) downwards
RECURSIVE HeadingFrom(_, _, _)
HeadingFrom(ls, i, minIndex) ==
  IF i < 0 THEN -1
  ELSE IF LineStart(ls, i) <= minIndex THEN -1
  ELSE IF IsHeadingLine(Trim(ls[i + 1])) THEN LineStart(ls, i)
  ELSE HeadingFrom(ls, i - 1, minIndex)

findMarkdownHeading(t, targetIndex, minIndex) ==
  LET ls == SplitLines(Substring0(t, targetIndex))
  IN  HeadingFrom(ls, Len(ls) - 1, minIndex)

\* /[.!?\n]/
IsSentenceEnding(c) == c \in {".", "\n"}

findSentenceEnd(t, targetIndex, minIndex) ==
  LET hits == {i \in 0..(Len(t) - 1) :
                 IsSentenceEnding(CharAt(t, i)) /\ i < targetIndex /\ i > minIndex}
  IN  IF hits = {} THEN -1
      ELSE (CHOOSE i \in hits : \A j \in hits : j <= i) + 1

findWordBoundary(t, targetIndex, minIndex) ==
  LET hits == {i \in (minIndex + 1)..targetIndex : IsSpace(CharAt(t, i))}
  IN  IF hits = {} THEN -1
      ELSE CHOOSE i \in hits : \A j \in hits : j <= i

\* the end of the window that starts at start, chunking.ts 47-68
EndIndex(t, start, size) ==
  LET tentative == start + size
  IN  IF tentative < Len(t)
      THEN LET headingEnd == findMarkdownHeading(t, tentative, start)
               sentenceEnd == findSentenceEnd(t, tentative, start)
               wordEnd == findWordBoundary(t, tentative, start)
           IN  IF headingEnd # -1 THEN headingEnd
               ELSE IF sentenceEnd # -1 THEN sentenceEnd
               ELSE IF wordEnd # -1 THEN wordEnd
               ELSE tentative
      ELSE tentative

\* a next start that steps over the character at the end of the window
NextStartPastEnd(t, end, size, ov) == end - ov + 1

\* startIndex = endIndex - overlap.  Every startIndex at or below
\* -(length + chunkSize) behaves alike (the window lies before the text: no
\* boundary is found, the slice is empty, and the next start is no larger),
\* so the model keeps the largest of them.
NextStart(t, end, size, ov) == Max(end - ov, 0 - (Len(t) + size))

\* the break of chunking.ts 79-81
LoopBreaks(t, start, end) == start >= Len(t) \/ end >= Len(t)

\* a push that keeps the empty chunk
PushChunkAlways(cs, c) ==
  IF Len(cs) < MaxChunks + Len(normalizedText) \div 100 THEN Append(cs, c) ELSE cs

\* chunks.push(chunk) of a non-empty chunk; the record holds MaxChunks entries
\* and one more for every hundred characters of the text
PushChunk(cs, c) ==
  IF c # <<>> /\ Len(cs) < MaxChunks + Len(normalizedText) \div 100 THEN Append(cs, c) ELSE cs

ChunkIdle ==
  /\ text = <<>> /\ chunkSize = 1 /\ overlap = 0 /\ normalizedText = <<>>
  /\ startIndex = 0 /\ chunks = <<>> /\ passes = 0 /\ pc = "idle"
  /\ covered = {} /\ lastWindow = <<>> /\ offsets = <<>>

\* splitIntoChunks(text, chunkSize, overlap) is called
InitChunker ==
  /\ text \in Texts
  /\ chunkSize \in 1..MaxChunkSize
  /\ overlap \in 0..MaxOverlap
  /\ normalizedText = <<>>
  /\ startIndex = 0
  /\ chunks = <<>>
  /\ passes = 0
  /\ covered = {}
  /\ lastWindow = <<>>
  /\ offsets = <<>>
  /\ pc = "start"

\* chunking.ts 26-44: the early returns and the normalisation
ChunkBegin ==
  /\ pc = "start"
  /\ LET n == Normalize(text)
     IN  IF Trim(text) = <<>>
         THEN /\ normalizedText' = <<>>
              /\ chunks' = <<>>
              /\ covered' = {}
              /\ offsets' = <<>>
              /\ pc' = "done"
         ELSE /\ normalizedText' = n
              /\ IF Len(n) <= chunkSize
                 THEN /\ chunks' = <<n>> /\ covered' = 0..(Len(n) - 1)
                      /\ offsets' = <<0>> /\ pc' = "done"
                 ELSE /\ chunks' = <<>> /\ covered' = {}
                      /\ offsets' = <<>> /\ pc' = "loop"
  /\ startIndex' = 0
  /\ UNCHANGED <<text, chunkSize, overlap, passes, lastWindow, hd, procVars, searchVars>>

\* chunking.ts 46-82: one pass of the while loop
ChunkIterate ==
  /\ pc = "loop"
  /\ LET end == EndIndex(normalizedText, startIndex, chunkSize)
         chunk == Trim(Slice(normalizedText, startIndex, end))
         next == end - overlap
     IN  /\ chunks' = PushChunk(chunks, chunk)
         /\ covered' = IF chunk # <<>>
                       THEN covered \cup SlicePositions(normalizedText, startIndex, end)
                       ELSE covered
         /\ lastWindow' = <<startIndex, end>>
         /\ offsets' = IF Len(PushChunk(chunks, chunk)) > Len(chunks)
                       THEN Append(offsets, TrimmedStart(normalizedText, startIndex, end))
                       ELSE offsets
         /\ startIndex' = NextStart(normalizedText, end, chunkSize, overlap)
         /\ pc' = IF LoopBreaks(normalizedText, next, end) \/ ~(next < Len(normalizedText))
                  THEN "done" ELSE "loop"
  /\ passes' = 1 - passes
  /\ UNCHANGED <<text, chunkSize, overlap, normalizedText, hd, procVars, searchVars>>

NextChunk == ChunkBegin \/ ChunkIterate

(***************************************************************************)
(*          Files, document rows and the embedding batch processor         *)
(***************************************************************************)
\* Process 20 chunks at a time
BATCH_SIZE == 20
\* The largest number of chunks a text splits into.
MaxChunkCount == 22

\* The processor reads and writes only the rows of the file id it is given;
\* these specifications follow one file.
FileIds == {"f1"}
FileNames == {"a.txt"}

NULL == "null"

NoFile ==
  [exists |-> FALSE, file_name |-> NULL, processing_status |-> "none", chunk_count |-> 0,
   processed_chunks |-> 0, error_message |-> NULL, file_data |-> NULL]

\* what a request may find failing; at most one call fails within one request,
\* and recording a failure on the file row then succeeds
UploadFaults == {"none", "insert"}
EarlyFaults == {"room", "decrypt", "select"}
ChunkFaults == {"none", "extract", "insert"}
EmbedFaults == {"none", "provider", "docwrite", "progress"}

\* the messages written to files.error_message
ErrorMessage(fault) ==
  CASE fault = "room"     -> "room not found"
    [] fault = "decrypt"  -> "api key decryption failed"
    [] fault = "extract"  -> "text extraction failed"
    [] fault = "fulltext" -> "full text not found"
    [] fault = "insert"   -> "saving chunk documents failed"
    [] fault = "select"   -> "fetching documents failed"
    [] fault = "provider" -> "embedding provider error"

\* A row of documents without its id.  The code tells the rows of a file apart
\* by id only, to update the rows it has selected, so the table is kept as the
\* bag of its rows.
Row(f, name, content, embedding) ==
  [file_id |-> f, file_name |-> name, content |-> content, embedding |-> embedding]

Copies(row, n) == IF n = 0 THEN EmptyBag ELSE [r \in {row} |-> n]

\* chunk rows that are inserted with an embedding
ChunkRowsEmbedded(f, name, n) == Copies(Row(f, name, "chunk", "vector"), n)

\* the rows inserted for n chunks: embedding null
ChunkRows(f, name, n) == Copies(Row(f, name, "chunk", NULL), n)

\* .eq('file_id', fileId)
DocsOf(docs, f) ==
  LET rows == {r \in BagToSet(docs) : r.file_id = f}
  IN  [r \in rows |-> docs[r]]

\* .from('documents').select('id, content').eq('file_id', fileId).is('embedding', null)
Pending(docs, f) ==
  LET rows == {r \in BagToSet(docs) : r.file_id = f /\ r.embedding = NULL}
  IN  [r \in rows |-> docs[r]]

\* .limit(BATCH_SIZE) with no ORDER BY: any BATCH_SIZE of the pending rows
Batches(pending) ==
  IF BagCardinality(pending) <= BATCH_SIZE THEN {pending}
  ELSE {b \in SubBag(pending) : BagCardinality(b) = BATCH_SIZE}

\* the point updates of a batch that fail when the store fails: any, not none
FailingWrites(batch) == SubBag(batch) \ {EmptyBag}

\* a progress count that forgets the batches before: the length of this batch
BatchLengthOnly(processed, batchLength) == batchLength

\* const newProcessedCount = fileData.processed_chunks + pendingDocuments.length
NewProcessedCount(processed, batchLength) == processed + batchLength

\* a completion test that misses the batch that reaches chunk_count exactly
IsCompleteStrict(newProcessedCount, chunkCount) == newProcessedCount > chunkCount

\* const isComplete = newProcessedCount >= fileData.chunk_count
IsComplete(newProcessedCount, chunkCount) == newProcessedCount >= chunkCount

RECURSIVE EmbeddedRows(_)
EmbeddedRows(written) ==
  IF written = EmptyBag THEN EmptyBag
  ELSE LET r == CHOOSE x \in BagToSet(written) : TRUE
           rest == [x \in BagToSet(written) \ {r} |-> written[x]]
       IN  Copies([r EXCEPT !.embedding = "vector"], written[r]) (+) EmbeddedRows(rest)

\* .update({ embedding }).eq('id', doc.id) for the rows of written
WithEmbeddings(docs, written) == (docs (-) written) (+) EmbeddedRows(written)

\* a catch block that records the status and no message
FailedWithoutMessage(row, fault) == [row EXCEPT !.processing_status = "failed"]

\* the catch block: processing_status 'failed', error_message error.message
Failed(row, fault) ==
  [row EXCEPT !.processing_status = "failed", !.error_message = ErrorMessage(fault)]

\* the body of a response that carries no progress (an upload, an error)
NoResponse == [status |-> "none", processed |-> 0, total |-> 0]

\* NextResponse.json({ status, progress: { processed, total } })
Progress(status, processed, total) ==
  [status |-> status, processed |-> processed, total |-> total]

Request(op, f, outcome, fault, batch, lost) ==
  [op |-> op, file |-> f, outcome |-> outcome, fault |-> fault,
   batch |-> BagCardinality(batch), lost |-> BagCardinality(lost),
   response |-> NoResponse]

\* the request with the response it was given
Answered(request, response) == [request EXCEPT !.response = response]

\* the early return that is taken after the status has been written
\* 'processing'
ProcessCompletedTouched(f) ==
  /\ files[f].exists
  /\ files[f].processing_status = "completed"
  /\ files' = [files EXCEPT ![f] = [files[f] EXCEPT !.processing_status = "processing"]]
  /\ last' = Answered(Request("process", f, "already_completed", "none", EmptyBag, EmptyBag),
                      Progress("completed", files[f].chunk_count, files[f].chunk_count))
  /\ UNCHANGED <<documents, hist, inv, chunkVars, searchVars>>

NoHistory == [faulted |-> FALSE, embedCalls |-> 0]

\* after a request on f: failed says whether a call failed in it, answered
\* whether the provider answered in it; calls are counted until the first failure
Noted(h, failed, answered) ==
  IF h.faulted \/ failed THEN [faulted |-> TRUE, embedCalls |-> 0]
  ELSE [h EXCEPT !.embedCalls = IF answered THEN @ + 1 ELSE @]

\* The requests to the processor that are served at the same time, and one
\* that is not being served.
Invocations == {"i1", "i2"}

NoInvocation ==
  [pc |-> "idle", fileData |-> NoFile, chunkCount |-> 0, pendingDocuments |-> {},
   chunked |-> FALSE]

InitStore ==
  /\ files = [f \in FileIds |-> NoFile]
  /\ documents = EmptyBag
  /\ last = Request("none", "f1", "none", "none", EmptyBag, EmptyBag)
  /\ hist = [f \in FileIds |-> NoHistory]
  /\ inv = [i \in Invocations |-> NoInvocation]

\* POST upload: the text is chunked, the file row is inserted with the number
\* of chunks, then the chunk rows; a failed insert of the rows removes the file
Upload(f, name, n, fault) ==
  /\ ~files[f].exists
  /\ n >= 1
  /\ IF fault = "insert"
     THEN UNCHANGED <<files, documents>>
     ELSE /\ files' = [files EXCEPT ![f] =
                [exists |-> TRUE, file_name |-> name, processing_status |-> "pending",
                 chunk_count |-> n, processed_chunks |-> 0, error_message |-> NULL,
                 file_data |-> NULL]]
          /\ documents' = documents (+) ChunkRows(f, name, n)
  /\ last' = Request("upload", f, IF fault = "none" THEN "uploaded" ELSE "failed", fault,
                     EmptyBag, EmptyBag)
  /\ hist' = [hist EXCEPT ![f] = NoHistory]
  /\ UNCHANGED <<inv, chunkVars, searchVars>>

\* An upload that stores the bytes only: the columns keep their defaults
UploadBinary(f, name) ==
  /\ ~files[f].exists
  /\ files' = [files EXCEPT ![f] =
        [exists |-> TRUE, file_name |-> name, processing_status |-> "pending",
         chunk_count |-> 0, processed_chunks |-> 0, error_message |-> NULL,
         file_data |-> "bytes"]]
  /\ last' = Request("upload_binary", f, "uploaded", "none", EmptyBag, EmptyBag)
  /\ hist' = [hist EXCEPT ![f] = NoHistory]
  /\ UNCHANGED <<documents, inv, chunkVars, searchVars>>

\* The old flow: the file's text is kept as one document row
UploadFullText(f, name) ==
  /\ ~files[f].exists
  /\ files' = [files EXCEPT ![f] =
        [exists |-> TRUE, file_name |-> name, processing_status |-> "pending",
         chunk_count |-> 0, processed_chunks |-> 0, error_message |-> NULL,
         file_data |-> NULL]]
  /\ documents' = documents (+) Copies(Row(f, name, "fulltext", NULL), 1)
  /\ last' = Request("upload_fulltext", f, "uploaded", "none", EmptyBag, EmptyBag)
  /\ hist' = [hist EXCEPT ![f] = NoHistory]
  /\ UNCHANGED <<inv, chunkVars, searchVars>>

\* POST process-embeddings, part_014 149-157: the file is completed already
ProcessAlreadyCompleted(f) ==
  /\ files[f].exists
  /\ files[f].processing_status = "completed"
  /\ last' = Answered(Request("process", f, "already_completed", "none", EmptyBag, EmptyBag),
                      Progress("completed", files[f].chunk_count, files[f].chunk_count))
  /\ UNCHANGED <<files, documents, hist, inv, chunkVars, searchVars>>

\* part_014 159-198 and 321-324: the status becomes 'processing', then the room
\* is not found, its key does not decrypt, or the pending rows cannot be read
ProcessEarlyFailure(f, fault) ==
  /\ files[f].exists
  /\ files[f].processing_status # "completed"
  /\ fault = "select" => files[f].chunk_count # 0
  /\ files' = [files EXCEPT ![f] = Failed(files[f], fault)]
  /\ last' = Request("process", f, "failed", fault, EmptyBag, EmptyBag)
  /\ hist' = [hist EXCEPT ![f] = Noted(@, TRUE, FALSE)]
  /\ UNCHANGED <<documents, inv, chunkVars, searchVars>>

\* part_014 203-311: chunk_count is 0, the text is obtained (extracted from the
\* stored bytes, which are then cleared, or read from the single full-text row,
\* which is then deleted), split into n chunks, the rows are inserted and
\* chunk_count is written
ProcessChunking(f, n, fault) ==
  /\ files[f].exists
  /\ files[f].processing_status # "completed"
  /\ files[f].chunk_count = 0
  /\ LET row == [files[f] EXCEPT !.processing_status = "processing"]
         own == DocsOf(documents, f)
         hasBytes == row.file_data # NULL
         noText == ~hasBytes /\ BagCardinality(own) # 1
         failure == IF noText THEN "fulltext" ELSE fault
         cleared == [row EXCEPT !.file_data = NULL]
         kept == IF hasBytes THEN documents ELSE documents (-) own
     IN  /\ noText => fault = "none"
         /\ fault = "extract" => hasBytes
         /\ CASE failure \in {"fulltext", "extract"} ->
                   /\ files' = [files EXCEPT ![f] = Failed(row, failure)]
                   /\ UNCHANGED documents
              [] failure = "insert" ->
                   /\ files' = [files EXCEPT ![f] = Failed(cleared, failure)]
                   /\ documents' = kept
              [] failure = "none" ->
                   /\ files' = [files EXCEPT ![f] = [cleared EXCEPT !.chunk_count = n]]
                   /\ documents' = kept (+) ChunkRows(f, row.file_name, n)
         /\ last' = Answered(Request("process", f,
                                     IF failure = "none" THEN "chunked" ELSE "failed",
                                     failure, EmptyBag, EmptyBag),
                             IF failure = "none" THEN Progress("processing", 0, n)
                             ELSE NoResponse)
         /\ hist' = [hist EXCEPT ![f] = Noted(@, failure # "none", FALSE)]
  /\ UNCHANGED <<inv, chunkVars, searchVars>>

\* part_014 313-348: no row of the file is left without embedding
ProcessAllDone(f) ==
  /\ files[f].exists
  /\ files[f].processing_status # "completed"
  /\ files[f].chunk_count # 0
  /\ Pending(documents, f) = EmptyBag
  /\ files' = [files EXCEPT ![f] =
        [files[f] EXCEPT !.processing_status = "completed",
                         !.processed_chunks = files[f].chunk_count]]
  /\ last' = Answered(Request("process", f, "all_done", "none", EmptyBag, EmptyBag),
                      Progress("completed", files[f].chunk_count, files[f].chunk_count))
  /\ UNCHANGED <<documents, hist, inv, chunkVars, searchVars>>

\* part_014 313-409: a batch of pending rows is embedded in one provider call,
\* each row is updated, then the file's progress.  The results of the updates
\* are not looked at: an update that fails (lost, or the progress update) is
\* passed over.
ProcessEmbed(f, batch, fault, lost) ==
  /\ files[f].exists
  /\ files[f].processing_status # "completed"
  /\ files[f].chunk_count # 0
  /\ batch # EmptyBag
  /\ batch \in Batches(Pending(documents, f))
  /\ fault # "docwrite" => lost = EmptyBag
  /\ fault = "docwrite" => lost \in FailingWrites(batch)
  /\ LET row == [files[f] EXCEPT !.processing_status = "processing"]
         newProcessedCount == NewProcessedCount(row.processed_chunks, BagCardinality(batch))
         isComplete == IsComplete(newProcessedCount, row.chunk_count)
     IN  CASE fault = "provider" ->
                /\ files' = [files EXCEPT ![f] = Failed(row, fault)]
                /\ UNCHANGED documents
           [] fault = "progress" ->
                /\ files' = [files EXCEPT ![f] = row]
                /\ documents' = WithEmbeddings(documents, batch)
           [] OTHER ->
                /\ files' = [files EXCEPT ![f] =
                      [row EXCEPT !.processed_chunks = newProcessedCount,
                                  !.processing_status =
                                      IF isComplete THEN "completed" ELSE "processing"]]
                /\ documents' = WithEmbeddings(documents, batch (-) lost)
  /\ last' = Answered(Request("process", f, IF fault = "provider" THEN "failed" ELSE "embedded",
                              fault, batch, lost),
                      IF fault = "provider" THEN NoResponse
                      ELSE LET n == NewProcessedCount(files[f].processed_chunks,
                                                      BagCardinality(batch))
                           IN  Progress(IF IsComplete(n, files[f].chunk_count)
                                        THEN "completed" ELSE "processing",
                                        n, files[f].chunk_count))
  /\ hist' = [hist EXCEPT ![f] = Noted(@, fault # "none", fault # "provider")]
  /\ UNCHANGED <<inv, chunkVars, searchVars>>

Process(f) ==
  \/ ProcessAlreadyCompleted(f)
  \/ \E fault \in EarlyFaults : ProcessEarlyFailure(f, fault)
  \/ \E n \in 0..MaxChunkCount, fault \in ChunkFaults : ProcessChunking(f, n, fault)
  \/ ProcessAllDone(f)
  \/ \E fault \in EmbedFaults :
       \E batch \in Batches(Pending(documents, f)) :
         \E lost \in {EmptyBag} \cup FailingWrites(batch) : ProcessEmbed(f, batch, fault, lost)

Next ==
  \/ \E f \in FileIds, name \in FileNames, n \in 1..MaxChunkCount, fault \in UploadFaults :
       Upload(f, name, n, fault)
  \/ \E f \in FileIds, name \in FileNames : UploadBinary(f, name)
  \/ \E f \in FileIds, name \in FileNames : UploadFullText(f, name)
  \/ \E f \in FileIds : Process(f)

(***************************************************************************)
(*                        hybrid_search_documents                          *)
(***************************************************************************)
\* Rows of documents a query runs against, and the values tried.  Numbers are
\* scaled: similarity, rank and match_threshold by 100, the weights by 10, and
\* so combined_score by 1000.
MaxDocs == 2
\* the most match_count tried
MaxMatchCount == 2
Rooms == {"r1", "r2"}
\* 1 - (d.embedding <=> query_embedding) of a row that has an embedding
Similarities == {10, 90}
\* ts_rank(d.content_tsv, query); 0 stands for a row whose content_tsv does
\* not match the query (d.content_tsv @@ query is false)
Ranks == {0, 5, 30}
Thresholds == {20, 99}
\* vector_weight float DEFAULT 0.6
VectorWeight == 6
\* keyword_weight float DEFAULT 0.4
KeywordWeight == 4

\* what a row holds besides its id
RowValues ==
  [room_id : Rooms, embedding : {NULL, "vector"},
   similarity : Similarities, rank : Ranks]

SearchRow(id, v) ==
  [id |-> id, room_id |-> v.room_id, embedding |-> v.embedding,
   similarity |-> v.similarity, rank |-> v.rank]

\* tables of up to MaxDocs rows, ids 1..n
Tables ==
  UNION {{{SearchRow(i, f[i]) : i \in 1..n} : f \in [1..n -> RowValues]} : n \in 0..MaxDocs}

\* five chunks of similarity 0.5 that the query text does not match
FiveChunks ==
  {[id |-> i, room_id |-> "r1", embedding |-> "vector", similarity |-> 50, rank |-> 0] :
     i \in 1..5}

Queries ==
  [match_threshold : Thresholds, match_count : 1..MaxMatchCount,
   p_room_id : {NULL, "r1"}, vector_weight : {VectorWeight},
   keyword_weight : {KeywordWeight}]

\* WHERE (p_room_id IS NULL OR d.room_id = p_room_id)
InRoom(d, q) == q.p_room_id = NULL \/ d.room_id = q.p_room_id

\* the CTE vector_search, part_020 25-34
VectorSearch(docs, q) == {d \in docs : InRoom(d, q) /\ d.embedding # NULL}

\* keyword_search as add_hybrid_search.sql 61-68 had it: rows without an
\* embedding are candidates too
KeywordSearchAnyRow(docs, q) == {d \in docs : InRoom(d, q) /\ d.rank > 0}

\* the CTE keyword_search, part_020 35-43
KeywordSearch(docs, q) == {d \in docs : InRoom(d, q) /\ d.rank > 0 /\ d.embedding # NULL}

\* a joined row scored by its similarity alone
CombinedRowBySimilarity(id, v, k, q) ==
  LET vs == {d \in v : d.id = id}
      ks == {d \in k : d.id = id}
      similarity == IF vs = {} THEN 0 ELSE (CHOOSE d \in vs : TRUE).similarity
      keyword_rank == IF ks = {} THEN 0 ELSE (CHOOSE d \in ks : TRUE).rank
  IN  [id |-> id,
       content |-> IF vs = {} THEN NULL ELSE "content",
       similarity |-> similarity,
       keyword_rank |-> keyword_rank,
       combined_score |-> similarity * q.vector_weight]

\* one row of the FULL OUTER JOIN with its COALESCEd columns, part_020 45-53
CombinedRow(id, v, k, q) ==
  LET vs == {d \in v : d.id = id}
      ks == {d \in k : d.id = id}
      similarity == IF vs = {} THEN 0 ELSE (CHOOSE d \in vs : TRUE).similarity
      keyword_rank == IF ks = {} THEN 0 ELSE (CHOOSE d \in ks : TRUE).rank
  IN  [id |-> id,
       content |-> IF vs = {} THEN NULL ELSE "content",
       similarity |-> similarity,
       keyword_rank |-> keyword_rank,
       combined_score |-> similarity * q.vector_weight + keyword_rank * q.keyword_weight]

\* combined as match_documents selects: by similarity alone
CombinedBySimilarity(docs, q) ==
  LET v == VectorSearch(docs, q)
      k == KeywordSearch(docs, q)
      joined == {CombinedRow(id, v, k, q) : id \in {d.id : d \in v \cup k}}
  IN  {c \in joined : c.similarity > q.match_threshold}

\* the CTE combined, part_020 44-55
Combined(docs, q) ==
  LET v == VectorSearch(docs, q)
      k == KeywordSearch(docs, q)
      joined == {CombinedRow(id, v, k, q) : id \in {d.id : d \in v \cup k}}
  IN  {c \in joined : c.similarity > q.match_threshold \/ c.keyword_rank > 0}

\* ORDER BY c.combined_score DESC
IsOrdered(rows, set) ==
  /\ Len(rows) = Cardinality(set)
  /\ {rows[i] : i \in 1..Len(rows)} = set
  /\ \A i \in 1..(Len(rows) - 1) : rows[i].combined_score >= rows[i + 1].combined_score

\* the results the query may give: rows of equal score come in any order
HybridSearchResults(docs, q) ==
  LET c == Combined(docs, q)
      n == Cardinality(c)
  IN  {SubSeq(rows, 1, Min(q.match_count, n)) :
         rows \in {r \in [1..n -> c] : IsOrdered(r, c)}}

SearchIdle ==
  /\ sdocs = {}
  /\ query = CHOOSE q \in Queries : TRUE
  /\ result = [called |-> FALSE, rows |-> <<>>]

InitSearch ==
  /\ sdocs \in Tables \cup {FiveChunks}
  /\ query \in Queries
  /\ result = [called |-> FALSE, rows |-> <<>>]

\* the chat route calls hybrid_search_documents
HybridSearch ==
  /\ \E rows \in HybridSearchResults(sdocs, query) : result' = [called |-> TRUE, rows |-> rows]
  /\ UNCHANGED <<sdocs, query, chunkVars, procVars>>

\* the processor stores the embedding of a row the query may meet later
StoreEmbedding(id) ==
  /\ \E d \in sdocs :
       /\ d.id = id
       /\ d.embedding = NULL
       /\ sdocs' = (sdocs \ {d}) \cup {[d EXCEPT !.embedding = "vector"]}
  /\ result' = [called |-> FALSE, rows |-> <<>>]
  /\ UNCHANGED <<query, chunkVars, procVars>>

NextSearch == HybridSearch \/ \E id \in 1..MaxDocs : StoreEmbedding(id)

(***************************************************************************)
(*                 Contextual headers (addContextualHeaders)               *)
(***************************************************************************)
\* Most lines of an original text and most chunks handed over with it.
MaxLines == 3
MaxHeaderChunks == 2

\* The lines texts are made of: headings of the three levels, two lines of
\* content and the empty line.
LineKinds ==
  {<<"#", " ", "T">>,
   <<"#", "#", " ", "A">>, <<"#", "#", " ", "C">>,
   <<"#", "#", "#", " ", "B">>, <<"#", "#", "#", " ", "D">>,
   <<"f">>, <<"b">>, <<>>}

\* '## A\nf\n### B\nb'
HeaderExample ==
  JoinLines(<<(<<"#", "#", " ", "A">>), (<<"f">>), (<<"#", "#", "#", " ", "B">>), (<<"b">>)>>)

HeaderTexts ==
  {JoinLines(ls) : ls \in UNION {[1..n -> LineKinds] : n \in 0..MaxLines}} \cup {HeaderExample}

\* The chunks handed over: content, content under its own heading, a title.
ChunkKinds ==
  {<<"f">>, <<"b">>, <<"#", "#", " ", "A", "\n", "f">>, <<"#", " ", "T">>}

ChunkLists == UNION {[1..n -> ChunkKinds] : n \in 1..MaxHeaderChunks}

\* trimmedLine.match(/^#{k}\s+(.+)/)[1] for k = 1, 2, 3; <<>> where the match
\* is null (a captured text is never empty)
HeadingMatch(l, k) ==
  IF Len(l) > k /\ (\A j \in 1..k : l[j] = "#") /\ IsSpace(l[k + 1])
  THEN LET rest == SubSeq(l, k + 1, Len(l))
       IN  IF TrimLeft(rest) # <<>> THEN TrimLeft(rest)
           ELSE IF Len(rest) >= 2 THEN <<rest[Len(rest)]>>
           ELSE <<>>
  ELSE <<>>

\* the level pushed for a line by extractHeadings, 0 for a line that is none
HeadingLevel(line) ==
  LET trimmedLine == Trim(line)
  IN  IF HeadingMatch(trimmedLine, 3) # <<>> THEN 3
      ELSE IF HeadingMatch(trimmedLine, 2) # <<>> THEN 2
      ELSE IF HeadingMatch(trimmedLine, 1) # <<>> THEN 1
      ELSE 0

\* let position, at the i-th line (1-based): position += line.length + 1
RECURSIVE PositionOf(_, _)
PositionOf(ls, i) == IF i <= 1 THEN 0 ELSE PositionOf(ls, i - 1) + Len(ls[i - 1]) + 1

extractHeadings(t) ==
  LET ls == SplitLines(t)
      IsHeading(i) == HeadingLevel(ls[i]) # 0
      at == SelectSeq([i \in 1..Len(ls) |-> i], IsHeading)
  IN  [k \in 1..Len(at) |->
         [level |-> HeadingLevel(ls[at[k]]),
          text |-> HeadingMatch(Trim(ls[at[k]]), HeadingLevel(ls[at[k]])),
          position |-> PositionOf(ls, at[k])]]

\* the backward loop of findPrecedingHeadings from headings[i] (1-based);
\* null and '' are both <<>>, the code only tests them for truth
RECURSIVE PrecedingFrom(_, _, _, _)
PrecedingFrom(headings, i, position, sofar) ==
  IF i < 1 THEN sofar
  ELSE LET heading == headings[i]
       IN  IF heading.position >= position
           THEN PrecedingFrom(headings, i - 1, position, sofar)
           ELSE LET now == IF heading.level = 3 /\ sofar.h3 = <<>>
                             THEN [sofar EXCEPT !.h3 = heading.text]
                           ELSE IF heading.level = 2 /\ sofar.h2 = <<>>
                             THEN [sofar EXCEPT !.h2 = heading.text]
                           ELSE IF heading.level = 1 /\ sofar.h1 = <<>>
                             THEN [sofar EXCEPT !.h1 = heading.text]
                           ELSE sofar
                IN  IF now.h1 # <<>> /\ now.h2 # <<>> /\ now.h3 # <<>>
                    THEN now
                    ELSE PrecedingFrom(headings, i - 1, position, now)

findPrecedingHeadings(headings, position) ==
  PrecedingFrom(headings, Len(headings), position, [h1 |-> <<>>, h2 |-> <<>>, h3 |-> <<>>])

\* a header built whether or not the chunk starts with a heading
buildContextualHeaderAlways(h2, h3, chunkStartsWithHeading) ==
  LET first == IF h2 # <<>> THEN <<"#", "#", " ">> \o h2 \o <<"\n">> ELSE <<>>
      second == IF h3 # <<>> THEN <<"#", "#", "#", " ">> \o h3 \o <<"\n">> ELSE <<>>
  IN  IF first \o second # <<>> THEN first \o second \o <<"\n">> ELSE <<>>

buildContextualHeader(h2, h3, chunkStartsWithHeading) ==
  IF chunkStartsWithHeading THEN <<>>
  ELSE LET first == IF h2 # <<>> THEN <<"#", "#", " ">> \o h2 \o <<"\n">> ELSE <<>>
           second == IF h3 # <<>> THEN <<"#", "#", "#", " ">> \o h3 \o <<"\n">> ELSE <<>>
       IN  IF first \o second # <<>> THEN first \o second \o <<"\n">> ELSE <<>>

\* String.prototype.indexOf(sub, from), 0-based, -1 when sub does not occur
IndexOf(s, sub, from) ==
  LET hits == {i \in Max(from, 0)..(Len(s) - Len(sub)) : SubSeq(s, i + 1, i + Len(sub)) = sub}
  IN  IF hits = {} THEN -1 ELSE CHOOSE i \in hits : \A j \in hits : i <= j

\* found[k] is the chunkIndex of the k-th chunk, -1 where it was not found
NoHeaders ==
  [originalText |-> <<>>, chunks |-> <<>>, normalizedText |-> <<>>, headings |-> <<>>,
   searchStartPos |-> 0, found |-> <<>>, result |-> <<>>, pc |-> "idle"]

HeadersIdle == hd = NoHeaders

\* addContextualHeaders(chunks, originalText) is called
InitHeaders ==
  /\ hd \in {[NoHeaders EXCEPT !.originalText = t, !.chunks = cs, !.pc = "start"] :
               t \in HeaderTexts, cs \in ChunkLists}
  /\ ChunkIdle /\ InitStore /\ SearchIdle

\* chunking.ts 329-352: the early returns, the normalisation, the headings
HeadersBegin ==
  /\ hd.pc = "start"
  /\ LET n == Normalize(hd.originalText)
         headings == extractHeadings(n)
     IN  hd' = IF Len(hd.originalText) > 100000 \/ Len(hd.chunks) > 300
               THEN [hd EXCEPT !.result = hd.chunks, !.pc = "done"]
               ELSE IF Len(headings) = 0
               THEN [hd EXCEPT !.normalizedText = n, !.result = hd.chunks, !.pc = "done"]
               ELSE [hd EXCEPT !.normalizedText = n, !.headings = headings,
                               !.pc = IF hd.chunks = <<>> THEN "done" ELSE "map"]
  /\ UNCHANGED <<splitVars, procVars, searchVars>>

\* chunking.ts 356-386: the callback of chunks.map for the next chunk
HeadersMap ==
  /\ hd.pc = "map"
  /\ LET index == Len(hd.result) + 1
         chunk == hd.chunks[index]
         chunkIndex == IndexOf(hd.normalizedText, chunk, hd.searchStartPos)
         preceding == findPrecedingHeadings(hd.headings, chunkIndex)
         chunkStartsWithHeading == IsHeadingLine(Trim(chunk))
         contextualHeader ==
           buildContextualHeader(preceding.h2, preceding.h3, chunkStartsWithHeading)
         pcAfter == IF index = Len(hd.chunks) THEN "done" ELSE "map"
     IN  hd' = IF chunkIndex = -1
               THEN [hd EXCEPT !.found = Append(@, -1),
                               !.result = Append(@, chunk),
                               !.pc = pcAfter]
               ELSE [hd EXCEPT !.searchStartPos = chunkIndex + 1,
                               !.found = Append(@, chunkIndex),
                               !.result = Append(@, contextualHeader \o chunk),
                               !.pc = pcAfter]
  /\ UNCHANGED <<splitVars, procVars, searchVars>>

NextHeaders == HeadersBegin \/ HeadersMap

(***************************************************************************)
(*                            Specifications                               *)
(***************************************************************************)
Init == InitStore /\ ChunkIdle /\ HeadersIdle /\ SearchIdle

\* Uploads and processor requests, served one after the other.
Spec == Init /\ [][Next]_vars

InitChunk == InitChunker /\ HeadersIdle /\ InitStore /\ SearchIdle

\* One call of splitIntoChunks on every text and parameter of the bounds.
SpecChunk == InitChunk /\ [][NextChunk]_vars

\* The first step of splitIntoChunks alone, on every text of the bounds: the
\* early return for a blank text, else the normalisation.
SpecNormalize == InitChunk /\ [][ChunkBegin]_vars

\* The test "should handle text with very long words": 'A'.repeat(m) followed
\* by ' B'.repeat(k), split with chunkSize 500 and the default overlap.
LongWordText(m, k) ==
  [i \in 1..(m + 2 * k) |-> IF i <= m THEN "a" ELSE IF (i - m) % 2 = 1 THEN " " ELSE "a"]

InitLongWord ==
  /\ text \in {LongWordText(m, k) : m \in {600, 1000, 1500, 2000}, k \in {0, 1000, 2000}}
  /\ chunkSize = 500
  /\ overlap = 200
  /\ normalizedText = <<>>
  /\ startIndex = 0
  /\ chunks = <<>>
  /\ passes = 0
  /\ covered = {}
  /\ lastWindow = <<>>
  /\ offsets = <<>>
  /\ pc = "start"
  /\ HeadersIdle /\ InitStore /\ SearchIdle

SpecLongWord == InitLongWord /\ [][NextChunk]_vars

\* One call of addContextualHeaders on every text and list of chunks of the
\* bounds.
SpecHeaders == InitHeaders /\ [][NextHeaders]_vars

\* A step of a call that has not returned: every step of NextChunk is one (it
\* changes pc or passes), and under SpecChunk no other step changes them.
ChunkAdvance ==
  /\ pc \in {"start", "loop"}
  /\ pc' \in {"loop", "done"}
  /\ passes' \in {0, 1}

\* The call runs on: while splitIntoChunks has not returned, its next step is
\* taken.
SpecChunkFair == SpecChunk /\ WF_<<pc, passes>>(ChunkAdvance)

InitQuery == InitSearch /\ InitStore /\ ChunkIdle /\ HeadersIdle

\* Queries against every table of the bounds, while embeddings are stored.
SpecSearch == InitQuery /\ [][NextSearch]_vars

(***************************************************************************)
(*                               Properties                                *)
(***************************************************************************)
Ceil(n, d) == (n + d - 1) \div d

\* C1: splitIntoChunks terminates for every text when chunkSize > 0 and
\* 0 <= overlap < chunkSize, also when a heading, a sentence terminator or a
\* whitespace lies within overlap characters after the start of a window.
C1_TerminatesWithOverlapBelowSize ==
  (pc = "start" /\ chunkSize > 0 /\ overlap < chunkSize) ~> (pc = "done")

\* C2: splitIntoChunks terminates for every text when overlap >= chunkSize.
C2_TerminatesWithOverlapAtLeastSize ==
  (pc = "start" /\ overlap >= chunkSize) ~> (pc = "done")

\* C3: processed_chunks of a file never decreases over the requests served
\* one after the other, those that fail and those that find no row left to
\* embed included.
C3_ProcessedChunksNeverDecreases ==
  [][\A f \in FileIds :
       files[f].exists => files'[f].processed_chunks >= files[f].processed_chunks]_vars

\* C3 witness: a request failed on a file that has counted a batch before.
C3_FailedAfterProgress ==
  /\ last.op = "process" /\ last.outcome = "failed"
  /\ files[last.file].processed_chunks >= BATCH_SIZE

\* C4: chunk_count of a file is written once, by the chunking step of the
\* processor, and no later request changes it.
C4_ChunkCountWrittenOnceByChunking ==
  [][\A f \in FileIds :
       /\ (files[f].exists /\ files[f].chunk_count # 0)
             => files'[f].chunk_count = files[f].chunk_count
       /\ (files'[f].exists /\ files'[f].chunk_count # 0 /\ files[f].chunk_count = 0)
             => (last'.op = "process" /\ last'.outcome = "chunked")]_vars

\* C5: processed_chunks <= chunk_count for every file, in every state reached
\* by upload and then processor requests served one after the other.
C5_ProcessedAtMostChunkCount ==
  \A f \in FileIds : files[f].exists => files[f].processed_chunks <= files[f].chunk_count

\* C6: after every processor request the status of the file is completed
\* exactly if processed_chunks = chunk_count and chunk_count > 0.
C6_CompletedIffAllProcessed ==
  last.op = "process" =>
    (files[last.file].processing_status = "completed"
       <=> (/\ files[last.file].processed_chunks = files[last.file].chunk_count
            /\ files[last.file].chunk_count > 0))

\* C7: upload creates the file pending with chunk_count 0 and processed_chunks
\* 0 and no chunk row; a file is pending exactly if chunk_count = 0 and no
\* failure is recorded.
C7_UploadLeavesChunkingToProcessor ==
  \A f \in FileIds :
    /\ (last.op = "upload" /\ last.outcome = "uploaded" /\ last.file = f)
          => /\ files[f].processing_status = "pending"
             /\ files[f].chunk_count = 0
             /\ files[f].processed_chunks = 0
             /\ DocsOf(documents, f) = EmptyBag
    /\ files[f].exists
          => (files[f].processing_status = "pending"
                <=> (files[f].chunk_count = 0 /\ files[f].error_message = NULL))

\* C8: no row whose embedding is null is among the rows hybrid_search_documents
\* returns, whatever its keyword rank: the vector candidates and the keyword
\* candidates all have an embedding.
C8_NullEmbeddingNeverReturned ==
  /\ \A d \in VectorSearch(sdocs, query) \cup KeywordSearch(sdocs, query) : d.embedding # NULL
  /\ result.called =>
       \A i \in 1..Len(result.rows) :
         \A d \in sdocs : d.id = result.rows[i].id => d.embedding # NULL

\* C8 witness: a query returned rows while a row of the room that matches the
\* keywords had no embedding.
C8_RankedRowWithoutEmbedding ==
  /\ result.called
  /\ result.rows # <<>>
  /\ \E d \in sdocs : d.embedding = NULL /\ d.rank > 0 /\ InRoom(d, query)

\* C9: while no call has failed, a file of N > 0 chunks has counted
\* min(calls * BATCH_SIZE, N) chunks after its embedding calls, has rows left
\* to embed until it is completed, and is completed exactly when
\* ceil(N / BATCH_SIZE) calls are made; every row then has an embedding and
\* processed_chunks = chunk_count = N.
C9_CompletesWithinCeilBatches ==
  \A f \in FileIds :
    (files[f].exists /\ ~hist[f].faulted /\ files[f].chunk_count > 0) =>
      LET n == files[f].chunk_count
          calls == hist[f].embedCalls
          done == files[f].processing_status = "completed"
      IN  /\ BagCardinality(DocsOf(documents, f)) = n
          /\ calls <= Ceil(n, BATCH_SIZE)
          /\ files[f].processed_chunks = Min(calls * BATCH_SIZE, n)
          /\ done <=> calls = Ceil(n, BATCH_SIZE)
          /\ ~done => Pending(documents, f) # EmptyBag
          /\ done => /\ Pending(documents, f) = EmptyBag
                     /\ files[f].processed_chunks = n

\* C9 witness: a file of more chunks than one batch is completed by its second
\* embedding call, no call having failed.
C9_CompletedBySecondBatch ==
  \E f \in FileIds :
    /\ files[f].exists /\ ~hist[f].faulted
    /\ files[f].chunk_count > BATCH_SIZE
    /\ hist[f].embedCalls = 2
    /\ files[f].processing_status = "completed"

\* C10: a request whose embedding provider call fails assigns no embedding,
\* leaves processed_chunks and chunk_count as they were, and sets the status
\* failed with a non-empty error_message.
C10_ProviderFailureKeepsProgress ==
  [][(last'.op = "process" /\ last'.fault = "provider") =>
       LET f == last'.file
       IN  /\ documents' = documents
           /\ files'[f].processed_chunks = files[f].processed_chunks
           /\ files'[f].chunk_count = files[f].chunk_count
           /\ files'[f].processing_status = "failed"
           /\ files'[f].error_message \notin {NULL, ""}]_vars

\* C10 witness: the provider failed on the second batch of a file.
C10_ProviderFailedOnLaterBatch ==
  /\ last.op = "process" /\ last.fault = "provider"
  /\ last.batch > 0
  /\ files[last.file].processed_chunks = BATCH_SIZE
  /\ files[last.file].processing_status = "failed"

\* C11: a request in which a store write fails (a point update of the batch,
\* or the progress update) sets the status failed with an error_message, and
\* advances processed_chunks by no more than the rows whose embedding was
\* stored.
C11_StoreWriteFailureRecorded ==
  [][(last'.op = "process" /\ last'.fault \in {"docwrite", "progress"}) =>
       LET f == last'.file
       IN  /\ files'[f].processing_status = "failed"
           /\ files'[f].error_message \notin {NULL, ""}
           /\ files'[f].processed_chunks - files[f].processed_chunks
                 <= last'.batch - last'.lost]_vars

\* C12: failed is terminal: a processor request on a file whose status is
\* failed changes neither its status, nor its counters, nor any document row.
C12_FailedIsTerminal ==
  [][\A f \in FileIds :
       (/\ files[f].exists
        /\ files[f].processing_status = "failed"
        /\ last'.op = "process" /\ last'.file = f)
          => /\ files'[f].processing_status = "failed"
             /\ files'[f].chunk_count = files[f].chunk_count
             /\ files'[f].processed_chunks = files[f].processed_chunks
             /\ documents' = documents]_vars

\* C13: a processor request on a completed file changes no field of the file
\* row and no document row, sends nothing to the extractor or the provider,
\* and answers completed with processed = total = chunk_count.
C13_CompletedIsNoOp ==
  [][\A f \in FileIds :
       (/\ files[f].exists
        /\ files[f].processing_status = "completed"
        /\ last'.op = "process" /\ last'.file = f)
          => /\ files'[f] = files[f]
             /\ documents' = documents
             /\ hist' = hist
             /\ last'.batch = 0
             /\ last'.response =
                  Progress("completed", files[f].chunk_count, files[f].chunk_count)]_vars

\* C13 witness: a request has been answered 'already completed' for a file
\* that took two batches.
C13_AskedAgainAfterCompletion ==
  /\ last.op = "process" /\ last.outcome = "already_completed"
  /\ files[last.file].processing_status = "completed"
  /\ files[last.file].chunk_count > BATCH_SIZE

\* C14: for overlap < chunkSize the windows of a call that has returned cover
\* the normalized text: the first starts at 0, each next one at the end of the
\* one before minus overlap, the last one ends at or after the end of the
\* text, and every non-whitespace character lies in a returned chunk.
C14_WindowsCoverText ==
  (chunkSize > 0 /\ overlap < chunkSize) =>
    /\ (pc = "loop" /\ lastWindow = <<>>) => startIndex = 0
    /\ (pc \in {"loop", "done"} /\ lastWindow # <<>>
          /\ lastWindow[2] - overlap >= 0 - Len(normalizedText)) =>
          startIndex = lastWindow[2] - overlap
    /\ pc = "done" =>
          /\ lastWindow # <<>> => lastWindow[2] >= Len(normalizedText)
          /\ \A i \in 0..(Len(normalizedText) - 1) :
               ~IsSpace(CharAt(normalizedText, i)) => i \in covered

\* C14 witness: a call returned after more than one window, with overlap.
C14_ReturnedAfterSeveralWindows ==
  /\ pc = "done"
  /\ overlap > 0 /\ overlap < chunkSize
  /\ Len(chunks) >= 3

\* no call that returns fills the record of chunks
ReturnedChunksAreAllRecorded ==
  pc = "done" => Len(chunks) < MaxChunks + Len(normalizedText) \div 100

\* C15: splitting 'A'.repeat(2000) + ' B'.repeat(2000), a text of 6000
\* characters whose first word is longer than the chunk size, with chunkSize
\* 500 and the default overlap returns fewer than 20 chunks.
C15_LongWordFewChunks ==
  (pc = "done" /\ text = LongWordText(2000, 2000)) => Len(chunks) < 20

\* C16: every chunk splitIntoChunks returns is non-empty, neither starts nor
\* ends with whitespace, and is at most chunkSize characters long, whatever
\* the text, for chunkSize > 0 and overlap >= 0.
C16_ChunksTrimmedAndBounded ==
  (pc = "done" /\ chunkSize > 0 /\ overlap >= 0) =>
    \A k \in 1..Len(chunks) :
      /\ chunks[k] # <<>>
      /\ ~IsSpace(chunks[k][1])
      /\ ~IsSpace(chunks[k][Len(chunks[k])])
      /\ Len(chunks[k]) <= chunkSize

\* C16 (witness): a call returned several chunks after a window that held
\* nothing but whitespace had been dropped
C16_ReturnedAfterDroppingBlankWindow ==
  /\ pc = "done"
  /\ Len(chunks) >= 2
  /\ lastWindow # <<>>
  /\ \E i \in 0..(Len(normalizedText) - 1) : i \notin covered

\* the text is a sequence of sentences: words of letters that end in a
\* terminator, one space between a terminator and the next sentence
IsSentences(t) ==
  /\ t # <<>>
  /\ t[Len(t)] = "."
  /\ \A i \in 1..Len(t) :
       /\ t[i] \in {"a", " ", "."}
       /\ t[i] = "." => (i > 1 /\ t[i - 1] = "a")
       /\ (t[i] = "." /\ i < Len(t)) => (i + 2 <= Len(t) /\ t[i + 1] = " " /\ t[i + 2] = "a")

\* the length of the longest sentence of such a text
LongestSentence(t) ==
  LET ends == {i \in 1..Len(t) : t[i] = "."}
      from(i) == IF \E p \in ends : p < i
                 THEN (CHOOSE p \in ends : p < i /\ \A q \in ends : q < i => q <= p) + 2
                 ELSE 1
  IN  CHOOSE n \in 0..Len(t) :
        /\ \A i \in ends : i - from(i) + 1 <= n
        /\ \E i \in ends : i - from(i) + 1 = n

\* C17: with overlap 0, when the text is a sequence of sentences that end in
\* a terminator (each short enough for one chunk), every chunk returned ends
\* with a sentence terminator, never in the middle of a sentence.
C17_ChunksEndAtSentenceEnd ==
  (/\ pc = "done"
   /\ overlap = 0
   /\ IsSentences(normalizedText)
   /\ LongestSentence(normalizedText) <= chunkSize) =>
    \A k \in 1..Len(chunks) : chunks[k] # <<>> /\ chunks[k][Len(chunks[k])] = "."

\* the line of t that starts at position q (0-based)
LineFrom(t, q) ==
  LET breaks == {i \in (q + 1)..Len(t) : t[i] = "\n"}
  IN  SubSeq(t, q + 1, IF breaks = {} THEN Len(t) ELSE (CHOOSE i \in breaks : \A j \in breaks : i <= j) - 1)

\* the positions before p at which a heading line of level k starts
HeadingsBefore(t, p, k) ==
  {q \in 0..(p - 1) :
     /\ q = 0 \/ t[q] = "\n"
     /\ LET l == LineFrom(t, q)
        IN  /\ Len(l) > k + 1
            /\ \A j \in 1..k : l[j] = "#"
            /\ l[k + 1] = " "}

\* '#'.repeat(k) + ' ' + title + '\n' for the last level-k heading before p,
\* nothing where there is none
HeadingPrefix(t, p, k) ==
  IF HeadingsBefore(t, p, k) = {} THEN <<>>
  ELSE LET q == CHOOSE a \in HeadingsBefore(t, p, k) : \A b \in HeadingsBefore(t, p, k) : b <= a
           l == LineFrom(t, q)
       IN  [j \in 1..k |-> "#"] \o <<" ">> \o TrimLeft(SubSeq(l, k + 2, Len(l))) \o <<"\n">>

\* the chunk starts with one to three '#' and whitespace after them
StartsWithHeadingMarker(c) ==
  \E k \in 1..3 : Len(c) > k /\ (\A j \in 1..k : c[j] = "#") /\ IsSpace(c[k + 1])

\* C18: a chunk found at position p of the normalized text comes back with
\* '## <title>\n' of the last level-2 heading before p and '### <title>\n' of
\* the last level-3 heading before p in front of it (each where there is
\* one), then an empty line; a chunk that itself starts with a heading marker
\* of level 1 to 3 comes back as it is.
C18_HeadersOfPrecedingHeadings ==
  \A k \in 1..Len(hd.found) :
    LET p == hd.found[k]
        chunk == hd.chunks[k]
        both == HeadingPrefix(hd.normalizedText, p, 2) \o HeadingPrefix(hd.normalizedText, p, 3)
    IN  p # -1 =>
          hd.result[k] = IF StartsWithHeadingMarker(chunk) THEN chunk
                         ELSE IF both = <<>> THEN chunk
                         ELSE both \o <<"\n">> \o chunk

\* C18 (witness): for '## A\nf\n### B\nb' the chunk 'b' came back under both
\* headings and the chunk '## A\nf' as it was
C18_ExampleGetsBothHeadings ==
  /\ hd.pc = "done"
  /\ hd.originalText = HeaderExample
  /\ hd.chunks = <<(<<"#", "#", " ", "A", "\n", "f">>), (<<"b">>)>>
  /\ hd.result = <<(<<"#", "#", " ", "A", "\n", "f">>),
                   (<<"#", "#", " ", "A", "\n", "#", "#", "#", " ", "B", "\n", "\n", "b">>)>>

\* C19: the normalisation of the chunker is idempotent, normalising a
\* normalised text gives it back, and a text of nothing but whitespace
\* normalises to the empty string.
C19_NormalizeIdempotent ==
  pc \in {"loop", "done"} =>
    /\ Normalize(normalizedText) = normalizedText
    /\ Normalize(Normalize(text)) = Normalize(text)
    /\ (\A i \in 1..Len(text) : IsSpace(text[i])) =>
         (Normalize(text) = <<>> /\ normalizedText = <<>>)

\* C19 (witness): the call normalised a text with a run of spaces inside it
\* to a shorter one that is not empty
C19_NormalizedInside ==
  /\ pc \in {"loop", "done"}
  /\ normalizedText # <<>>
  /\ Len(normalizedText) < Len(Trim(text))

\* a chunk the query may return: in the room, embedded, and similar beyond
\* the threshold or matched by the query text
Qualifies(d, q) ==
  /\ InRoom(d, q)
  /\ d.embedding # NULL
  /\ (d.similarity > q.match_threshold \/ d.rank > 0)

Score(d, q) == d.similarity * q.vector_weight + d.rank * q.keyword_weight

\* C20: hybrid_search_documents returns a chunk if and only if it is among
\* the match_count best by combined score of the chunks with similarity >
\* match_threshold or keyword_rank > 0: it returns min(match_count, number of
\* such chunks) different chunks, each one of them, best first, and none left
\* out scores higher than one returned; so five chunks of similarity 0.5 that
\* the query text does not match give no row at match_threshold 0.99.
C20_TopMatchesAmongQualifying ==
  result.called =>
    LET rows == result.rows
        qualifying == {d \in sdocs : Qualifies(d, query)}
        returned == {rows[i].id : i \in 1..Len(rows)}
    IN  /\ Len(rows) = Min(query.match_count, Cardinality(qualifying))
        /\ Cardinality(returned) = Len(rows)
        /\ \A i \in 1..Len(rows) :
             \E d \in qualifying :
               /\ d.id = rows[i].id
               /\ rows[i].similarity = d.similarity
               /\ rows[i].keyword_rank = d.rank
               /\ rows[i].combined_score = Score(d, query)
        /\ \A i \in 1..(Len(rows) - 1) : rows[i].combined_score >= rows[i + 1].combined_score
        /\ \A d \in qualifying :
             d.id \notin returned =>
               \A i \in 1..Len(rows) : Score(d, query) <= rows[i].combined_score
        /\ (sdocs = FiveChunks /\ query.match_threshold = 99) => rows = <<>>

\* C20 (witness): the only row returned is a chunk whose similarity is not
\* beyond the threshold and which the query text matches, and another such
\* chunk with a lower score was left out by match_count
C20_KeywordHitReturnedAloneBelowThreshold ==
  /\ result.called
  /\ Len(result.rows) = 1
  /\ result.rows[1].similarity <= query.match_threshold
  /\ result.rows[1].keyword_rank > 0
  /\ \E d \in sdocs :
       /\ Qualifies(d, query)
       /\ d.id # result.rows[1].id
       /\ Score(d, query) < result.rows[1].combined_score

\* C21: every row returned has combined_score = similarity * vector_weight +
\* keyword_rank * keyword_weight, with keyword_rank 0 for a chunk that is not
\* a keyword candidate and similarity 0 for one that is not a vector
\* candidate; a chunk that is a vector candidate only, of similarity 0.9,
\* scores 0.54 at vector_weight 0.6 (here 90 * 6 = 540).
C21_CombinedScoreIsWeightedSum ==
  result.called =>
    \A i \in 1..Len(result.rows) :
      LET r == result.rows[i]
          d == CHOOSE x \in sdocs : x.id = r.id
          vectorCandidate == InRoom(d, query) /\ d.embedding # NULL
          keywordCandidate == InRoom(d, query) /\ d.embedding # NULL /\ d.rank > 0
      IN  /\ \E x \in sdocs : x.id = r.id
          /\ r.similarity = IF vectorCandidate THEN d.similarity ELSE 0
          /\ r.keyword_rank = IF keywordCandidate THEN d.rank ELSE 0
          /\ r.combined_score =
               r.similarity * query.vector_weight + r.keyword_rank * query.keyword_weight
          /\ (r.similarity = 90 /\ ~keywordCandidate /\ query.vector_weight = 6) =>
               r.combined_score = 540

\* C21 (witness): a chunk of similarity 0.9 that the query text does not
\* match was returned next to one that it matches
C21_VectorOnlyRowReturned ==
  /\ result.called
  /\ \E i, j \in 1..Len(result.rows) :
       /\ result.rows[i].similarity = 90
       /\ result.rows[i].keyword_rank = 0
       /\ result.rows[i].combined_score = 540
       /\ result.rows[j].keyword_rank > 0

Embedded(docs, f) == DocsOf(docs, f) (-) Pending(docs, f)

\* C24: requests being served one after the other, a batch holds at most
\* BATCH_SIZE rows, all without embedding when selected, and every row of a
\* file gets its embedding exactly once: each row of a batch is written, no
\* row that has an embedding is written again, and a completed file has no
\* row left without one.
C24_EachChunkEmbeddedOnce ==
  [][\A f \in FileIds :
       (last'.op = "process" /\ last'.file = f) =>
         /\ last'.batch <= BATCH_SIZE
         /\ last'.batch <= BagCardinality(Pending(documents, f))
         /\ BagCardinality(Embedded(documents', f)) =
              BagCardinality(Embedded(documents, f)) +
                (IF last'.outcome = "embedded" THEN last'.batch ELSE 0)
         /\ files'[f].processing_status = "completed" =>
              Pending(documents', f) = EmptyBag]_vars

\* C28: requests being served one after the other, after every request that
\* does not fail processed_chunks is the number of the file's rows that have
\* an embedding.
C28_ProcessedCountsEmbeddedRows ==
  [][\A f \in FileIds :
       (last'.op = "process" /\ last'.file = f /\ last'.outcome # "failed") =>
         files'[f].processed_chunks = BagCardinality(Embedded(documents', f))]_vars

AnnotateSizes == {4, 6}
AnnotateOverlaps == {0, 1, 2}

\* '## A\n\nb\n## A': with overlap 2 the last two chunks are cut at the same
\* position
RepeatExample ==
  JoinLines(<<(<<"#", "#", " ", "A">>), (<<>>), (<<"b">>), (<<"#", "#", " ", "A">>)>>)

\* const chunks = splitIntoChunks(originalText, size, overlap) is called on
\* a text of headings and content
InitAnnotate ==
  /\ text \in HeaderTexts \cup {RepeatExample}
  /\ chunkSize \in AnnotateSizes
  /\ overlap \in AnnotateOverlaps
  /\ normalizedText = <<>>
  /\ startIndex = 0
  /\ chunks = <<>>
  /\ passes = 0
  /\ covered = {}
  /\ lastWindow = <<>>
  /\ offsets = <<>>
  /\ pc = "start"
  /\ HeadersIdle /\ InitStore /\ SearchIdle

\* addContextualHeaders(chunks, originalText) is called with the chunks the
\* chunker returned and the text it was given
HeadersCall ==
  /\ pc = "done"
  /\ hd = NoHeaders
  /\ hd' = [NoHeaders EXCEPT !.originalText = text, !.chunks = chunks, !.pc = "start"]
  /\ UNCHANGED <<splitVars, procVars, searchVars>>

NextAnnotate == ChunkBegin \/ ChunkIterate \/ HeadersCall \/ HeadersBegin \/ HeadersMap

\* The chunks of every heading text, then their annotation.
SpecAnnotate == InitAnnotate /\ [][NextAnnotate]_vars

\* C29: addContextualHeaders finds every chunk of splitIntoChunks at the
\* position of the normalized text where the chunker cut it, so the positions
\* found increase strictly and each chunk comes back under the headings that
\* precede the place it was cut at.
C29_ChunksLocatedWhereCut ==
  \A k \in 1..Len(hd.found) :
    LET p == offsets[k]
        both == HeadingPrefix(hd.normalizedText, p, 2) \o HeadingPrefix(hd.normalizedText, p, 3)
    IN  /\ hd.found[k] = p
        /\ k > 1 => hd.found[k - 1] < hd.found[k]
        /\ hd.result[k] = IF StartsWithHeadingMarker(hd.chunks[k]) THEN hd.chunks[k]
                          ELSE IF both = <<>> THEN hd.chunks[k]
                          ELSE both \o <<"\n">> \o hd.chunks[k]


(***************************************************************************)
(* The chunk rows of a file with their contents                            *)
(***************************************************************************)
\* chunks.map(chunk => ({ file_id, file_name, content: chunk, embedding: null }))
ContentRows(f, name, cs) ==
  LET rows == {Row(f, name, cs[k], NULL) : k \in 1..Len(cs)}
  IN  [r \in rows |-> Cardinality({k \in 1..Len(cs) : cs[k] = r.content})]

\* chunking.ts 354-386: chunks.map from chunk k on
RECURSIVE AnnotateFrom(_, _, _, _, _)
AnnotateFrom(cs, n, headings, k, searchStartPos) ==
  IF k > Len(cs) THEN <<>>
  ELSE LET chunk == cs[k]
           chunkIndex == IndexOf(n, chunk, searchStartPos)
           preceding == findPrecedingHeadings(headings, chunkIndex)
           contextualHeader ==
             buildContextualHeader(preceding.h2, preceding.h3, IsHeadingLine(Trim(chunk)))
       IN  IF chunkIndex = -1
           THEN <<chunk>> \o AnnotateFrom(cs, n, headings, k + 1, searchStartPos)
           ELSE <<contextualHeader \o chunk>> \o AnnotateFrom(cs, n, headings, k + 1, chunkIndex + 1)

\* chunking.ts 329-387 as a function of its arguments
addContextualHeaders(cs, originalText) ==
  IF Len(originalText) > 100000 \/ Len(cs) > 300 THEN cs
  ELSE LET n == Normalize(originalText)
           headings == extractHeadings(n)
       IN  IF Len(headings) = 0 THEN cs ELSE AnnotateFrom(cs, n, headings, 1, 0)

\* POST upload, route.ts 85-139: the chunks of the text are stored as the
\* rows of a new file (a text without chunks is answered 500 at 92-97)
UploadChunks(f, name) ==
  /\ pc = "done"
  /\ chunks # <<>>
  /\ ~files[f].exists
  /\ files' = [files EXCEPT ![f] =
        [exists |-> TRUE, file_name |-> name, processing_status |-> "pending",
         chunk_count |-> Len(chunks), processed_chunks |-> 0, error_message |-> NULL,
         file_data |-> NULL]]
  /\ documents' = documents (+) ContentRows(f, name, chunks)
  /\ last' = Request("upload", f, "uploaded", "none", EmptyBag, EmptyBag)
  /\ hist' = [hist EXCEPT ![f] = NoHistory]
  /\ UNCHANGED <<inv, chunkVars, searchVars>>

\* POST process-embeddings, part_014 203-311: the text extracted from the
\* bytes has been split, its chunks are stored and counted
ProcessChunks(f) ==
  /\ pc = "done"
  /\ chunks # <<>>
  /\ files[f].exists
  /\ files[f].processing_status # "completed"
  /\ files[f].chunk_count = 0
  /\ files[f].file_data # NULL
  /\ files' = [files EXCEPT ![f] =
        [files[f] EXCEPT !.file_data = NULL, !.chunk_count = Len(chunks),
                         !.processing_status = "processing"]]
  /\ documents' = documents (+) ContentRows(f, files[f].file_name, chunks)
  /\ last' = Answered(Request("process", f, "chunked", "none", EmptyBag, EmptyBag),
                      Progress("processing", 0, Len(chunks)))
  /\ UNCHANGED <<hist, inv, chunkVars, searchVars>>

NextPersist ==
  \/ ChunkBegin
  \/ ChunkIterate
  \/ \E f \in FileIds, name \in FileNames : UploadBinary(f, name)
  \/ \E f \in FileIds, name \in FileNames : UploadChunks(f, name)
  \/ \E f \in FileIds : ProcessChunks(f)

\* A text is split, and its chunks are stored by the upload or, for a file
\* uploaded as bytes, by the processor.
SpecPersist == InitAnnotate /\ [][NextPersist]_vars

\* C25: the rows stored for a file, by the upload and by the chunking step of
\* the processor alike, hold addContextualHeaders(splitIntoChunks(text), text):
\* every chunk under the headings that precede it.
C25_RowsHoldAnnotatedChunks ==
  \A f \in FileIds :
    (files[f].exists /\ files[f].chunk_count > 0) =>
      DocsOf(documents, f) =
        ContentRows(f, files[f].file_name, addContextualHeaders(chunks, text))


(***************************************************************************)
(* DELETE /api/rooms/[roomId]/files/[fileId]                               *)
(***************************************************************************)
MaxRoomChunks == 2

\* The files of one room and the names they are uploaded under: file_path
\* carries the upload time, so two files of a room may share their name.
RoomFiles == {"f1", "f2"}
RoomFileNames == {"a.txt", "b.txt"}

\* what a delete request may find failing: the delete of the documents (its
\* error is logged and the handler goes on), the delete of the file row
DeleteFaults == {"none", "docs", "file"}

\* documents.delete().eq('room_id', roomId).eq('file_name', name)
WithoutFileName(docs, name) ==
  LET rows == {r \in BagToSet(docs) : r.file_name # name}
  IN  [r \in rows |-> docs[r]]

\* documents.file_id REFERENCES files(id) ON DELETE CASCADE
WithoutFileId(docs, f) ==
  LET rows == {r \in BagToSet(docs) : r.file_id # f}
  IN  [r \in rows |-> docs[r]]

\* part_014 21-73: the file is looked up, the documents of the room with its
\* name are deleted, then the file row, with which its documents go
DeleteFile(f, fault) ==
  /\ files[f].exists
  /\ LET byName == IF fault = "docs" THEN documents
                   ELSE WithoutFileName(documents, files[f].file_name)
     IN  IF fault = "file"
         THEN /\ documents' = byName
              /\ UNCHANGED <<files, hist>>
         ELSE /\ documents' = WithoutFileId(byName, f)
              /\ files' = [files EXCEPT ![f] = NoFile]
              /\ hist' = [hist EXCEPT ![f] = NoHistory]
  /\ last' = Request("delete", f, IF fault = "file" THEN "failed" ELSE "deleted", fault,
                     EmptyBag, EmptyBag)
  /\ UNCHANGED <<inv, chunkVars, searchVars>>

InitRoom ==
  /\ files = [f \in RoomFiles |-> NoFile]
  /\ documents = EmptyBag
  /\ last = Request("none", "f1", "none", "none", EmptyBag, EmptyBag)
  /\ hist = [f \in RoomFiles |-> NoHistory]
  /\ inv = [i \in Invocations |-> NoInvocation]
  /\ ChunkIdle /\ HeadersIdle /\ SearchIdle

NextRoom ==
  \/ \E f \in RoomFiles, name \in RoomFileNames, n \in 1..MaxRoomChunks :
       Upload(f, name, n, "none")
  \/ \E f \in RoomFiles : ProcessAlreadyCompleted(f)
  \/ \E f \in RoomFiles : ProcessAllDone(f)
  \/ \E f \in RoomFiles :
       \E batch \in Batches(Pending(documents, f)) : ProcessEmbed(f, batch, "none", EmptyBag)
  \/ \E f \in RoomFiles, fault \in DeleteFaults : DeleteFile(f, fault)

\* Uploads, processor requests and deletes on the files of one room, served
\* one after the other.
SpecRoom == InitRoom /\ [][NextRoom]_vars

\* C26: a delete of file f that is answered 200 leaves no row of f, and leaves
\* the rows and the record of every other file of the room as they were, a
\* file with the same name as f included.
C26_DeleteTouchesOnlyItsFile ==
  [][\A f \in RoomFiles :
       (last'.op = "delete" /\ last'.file = f /\ last'.outcome = "deleted" /\ files[f].exists) =>
         /\ DocsOf(documents', f) = EmptyBag
         /\ \A g \in RoomFiles \ {f} :
              /\ DocsOf(documents', g) = DocsOf(documents, g)
              /\ files'[g] = files[g]]_vars


(***************************************************************************)
(* Processor requests served at the same time                              *)
(*                                                                         *)
(* Each await of the handler is one step; between two steps of a request   *)
(* the steps of the other request may take place.  The rows carry their    *)
(* ids here, since a request writes the rows it has selected by id.        *)
(***************************************************************************)
\* a row of documents with its id
IdRow(f, name, id, embedding) ==
  [file_id |-> f, file_name |-> name, content |-> "chunk", embedding |-> embedding, id |-> id]

\* the rows an insert of n chunks adds: new ids, embedding null
InsertedRows(docs, f, name, n) ==
  SetToBag({IdRow(f, name, BagCardinality(docs) + k, NULL) : k \in 1..n})

\* data.map(doc => doc.id) of the rows selected
Ids(rows) == {r.id : r \in BagToSet(rows)}

\* .update({ embedding }).eq('id', doc.id) for each id selected
WithEmbeddingsById(docs, ids) ==
  SetToBag({IF r.id \in ids THEN [r EXCEPT !.embedding = "vector"] ELSE r : r \in BagToSet(docs)})

\* POST upload, route.ts 85-139, served alone: the file row and its n rows
UploadRows(f, name, n) ==
  /\ ~files[f].exists
  /\ files' = [files EXCEPT ![f] =
        [exists |-> TRUE, file_name |-> name, processing_status |-> "pending",
         chunk_count |-> n, processed_chunks |-> 0, error_message |-> NULL,
         file_data |-> NULL]]
  /\ documents' = documents (+) InsertedRows(documents, f, name, n)
  /\ UNCHANGED <<last, hist, inv, chunkVars, searchVars>>

\* part_014 120-157: the file row is read; a completed file is answered at once
ReadFile(i, f) ==
  /\ inv[i].pc = "idle"
  /\ files[f].exists
  /\ inv' = [inv EXCEPT ![i] =
        IF files[f].processing_status = "completed"
        THEN [@ EXCEPT !.fileData = files[f]]
        ELSE [@ EXCEPT !.pc = "status", !.fileData = files[f], !.pendingDocuments = {}]]
  /\ UNCHANGED <<files, documents, last, hist, chunkVars, searchVars>>

\* part_014 159-204: the status is written 'processing', the room and its key
\* are read, and the branch is taken on the chunk_count that was read
SetProcessing(i, f) ==
  /\ inv[i].pc = "status"
  /\ files' = [files EXCEPT ![f] = [@ EXCEPT !.processing_status = "processing"]]
  /\ inv' = [inv EXCEPT ![i].pc = IF inv[i].fileData.chunk_count = 0 THEN "extract" ELSE "select"]
  /\ UNCHANGED <<documents, last, hist, chunkVars, searchVars>>

\* part_014 210-236: the text is extracted from the bytes that were read and
\* file_data is cleared; the same bytes give the same number of chunks
ExtractText(i, f, n) ==
  /\ inv[i].pc = "extract"
  /\ inv[i].fileData.file_data # NULL
  /\ \A j \in Invocations : inv[j].chunkCount # 0 => n = inv[j].chunkCount
  /\ files' = [files EXCEPT ![f] = [@ EXCEPT !.file_data = NULL]]
  /\ inv' = [inv EXCEPT ![i] = [@ EXCEPT !.pc = "insert", !.chunkCount = n]]
  /\ UNCHANGED <<documents, last, hist, chunkVars, searchVars>>

\* part_014 248-258, 411-433: the row read has neither bytes nor, here, a
\* full-text document; the request fails
NoFullText(i, f) ==
  /\ inv[i].pc = "extract"
  /\ inv[i].fileData.file_data = NULL
  /\ files' = [files EXCEPT ![f] = Failed(@, "fulltext")]
  /\ inv' = [inv EXCEPT ![i].pc = "idle"]
  /\ UNCHANGED <<documents, last, hist, chunkVars, searchVars>>

\* part_014 270-288: the chunk rows are inserted
InsertChunks(i, f) ==
  /\ inv[i].pc = "insert"
  /\ documents' = documents (+)
       InsertedRows(documents, f, inv[i].fileData.file_name, inv[i].chunkCount)
  /\ inv' = [inv EXCEPT ![i].pc = "count"]
  /\ UNCHANGED <<files, last, hist, chunkVars, searchVars>>

\* part_014 290-310: chunk_count is written and the request returns
WriteChunkCount(i, f) ==
  /\ inv[i].pc = "count"
  /\ files' = [files EXCEPT ![f] =
        [@ EXCEPT !.chunk_count = inv[i].chunkCount, !.processing_status = "processing"]]
  /\ inv' = [inv EXCEPT ![i] = [@ EXCEPT !.pc = "idle", !.chunked = TRUE]]
  /\ UNCHANGED <<documents, last, hist, chunkVars, searchVars>>

\* a selection that leaves out the rows another request holds
SelectUnclaimed(i, f) ==
  /\ inv[i].pc = "select"
  /\ LET held == UNION {inv[j].pendingDocuments : j \in Invocations \ {i}}
         ids == Ids(Pending(documents, f)) \ held
     IN  inv' = [inv EXCEPT ![i] =
           [@ EXCEPT !.pc = IF ids = {} THEN "alldone" ELSE "write", !.pendingDocuments = ids]]
  /\ UNCHANGED <<files, documents, last, hist, chunkVars, searchVars>>

\* part_014 313-332: the rows of the file without an embedding are selected
\* (fewer than BATCH_SIZE rows here, so all of them)
SelectPending(i, f) ==
  /\ inv[i].pc = "select"
  /\ LET ids == Ids(Pending(documents, f))
     IN  inv' = [inv EXCEPT ![i] =
           [@ EXCEPT !.pc = IF ids = {} THEN "alldone" ELSE "write", !.pendingDocuments = ids]]
  /\ UNCHANGED <<files, documents, last, hist, chunkVars, searchVars>>

\* part_014 332-348: nothing is pending, the file is completed
WriteAllDone(i, f) ==
  /\ inv[i].pc = "alldone"
  /\ files' = [files EXCEPT ![f] =
        [@ EXCEPT !.processing_status = "completed",
                  !.processed_chunks = inv[i].fileData.chunk_count]]
  /\ inv' = [inv EXCEPT ![i].pc = "idle"]
  /\ UNCHANGED <<documents, last, hist, chunkVars, searchVars>>

\* part_014 352-371: the embeddings are generated and written to the rows
\* selected
WriteEmbeddings(i, f) ==
  /\ inv[i].pc = "write"
  /\ documents' = WithEmbeddingsById(documents, inv[i].pendingDocuments)
  /\ inv' = [inv EXCEPT ![i].pc = "progress"]
  /\ UNCHANGED <<files, last, hist, chunkVars, searchVars>>

\* part_014 373-409: the progress is written from the counters that were read
WriteProgress(i, f) ==
  /\ inv[i].pc = "progress"
  /\ LET newProcessedCount ==
           NewProcessedCount(inv[i].fileData.processed_chunks,
                             Cardinality(inv[i].pendingDocuments))
         isComplete == IsComplete(newProcessedCount, inv[i].fileData.chunk_count)
     IN  files' = [files EXCEPT ![f] =
           [@ EXCEPT !.processed_chunks = newProcessedCount,
                     !.processing_status = IF isComplete THEN "completed" ELSE "processing"]]
  /\ inv' = [inv EXCEPT ![i] = [@ EXCEPT !.pc = "idle", !.pendingDocuments = {}]]
  /\ UNCHANGED <<documents, last, hist, chunkVars, searchVars>>

NextConcurrent ==
  \/ \E f \in FileIds, name \in FileNames, n \in 1..MaxRoomChunks : UploadRows(f, name, n)
  \/ \E f \in FileIds, name \in FileNames : UploadBinary(f, name)
  \/ \E i \in Invocations, f \in FileIds : ReadFile(i, f)
  \/ \E i \in Invocations, f \in FileIds : SetProcessing(i, f)
  \/ \E i \in Invocations, f \in FileIds, n \in 1..MaxRoomChunks : ExtractText(i, f, n)
  \/ \E i \in Invocations, f \in FileIds : NoFullText(i, f)
  \/ \E i \in Invocations, f \in FileIds : InsertChunks(i, f)
  \/ \E i \in Invocations, f \in FileIds : WriteChunkCount(i, f)
  \/ \E i \in Invocations, f \in FileIds : SelectPending(i, f)
  \/ \E i \in Invocations, f \in FileIds : WriteAllDone(i, f)
  \/ \E i \in Invocations, f \in FileIds : WriteEmbeddings(i, f)
  \/ \E i \in Invocations, f \in FileIds : WriteProgress(i, f)

\* One file, and the requests to the processor for it taking their steps in
\* any order.
SpecConcurrent == Init /\ [][NextConcurrent]_vars


=============================================================================
